---- MODULE Spec2Model ----
(***************************************************************************)
(* Model of midi_to_scratch_gui.py: the instrument mapper, the beat        *)
(* quantizer and the conversion midi_to_scratch, as state machines.        *)
(*                                                                         *)
(* Numbers.  Python floats are modelled exactly by rationals:              *)
(*   - a beat value is a pair <<n, d>> (n ticks over d ticks per beat);    *)
(*   - a quantized duration is an integer count of 1/100000 beats          *)
(*     (0.03125 is 3125, 1.5 is 150000);                                   *)
(*   - a BPM value is the fraction 60000000 / tempo in lowest terms.       *)
(* For the operands the model draws, an int/int division in Python is the  *)
(* double nearest the rational, and no two distinct rationals the model    *)
(* compares are closer than one part in 10^9, so the float comparisons of  *)
(* the source and the rational comparisons here agree.                     *)
(***************************************************************************)
EXTENDS Integers, Sequences, FiniteSets, TLC

VARIABLES
    pc,               \* position in midi_to_scratch / in the pure-function call
    ticks_per_beat,   \* mid.ticks_per_beat
    track_num,        \* number of tracks entered so far
    msg_count,        \* messages read so far, over all tracks
    absolute_time,    \* per-track running time
    current_program,  \* per-track running program
    current_tempo,    \* last tempo seen
    events,           \* list of (time, type, data)
    tempo_changes,    \* dict time -> tempo, as a list of <<time, tempo>> in insertion order
    note_end_times,   \* dict (channel, note) -> time, as a function on a set of pairs
    grouped_events,   \* list of (time, 'chord' | 'tempo', data)
    gidx,             \* index of the next grouped event the serializer visits
    first_instrument,
    bpm,
    previous_time,
    current_bpm,
    last_instrument,
    output_lines,     \* list of [kind, val]
    line_times,       \* history: the event time behind each output line
    result,           \* the returned (success, message) pair
    output_file,      \* the file at output_file: [exists, lines]
    gm_program,       \* argument of a gm_to_scratch_instrument call
    gm_result,        \* its return value
    gm_ret,           \* which return statement produced it
    beat_value,       \* argument of a round_to_musical_beat call
    beat_result       \* its return value

conv_vars == << ticks_per_beat, track_num, msg_count, absolute_time, current_program,
                current_tempo, events, tempo_changes, note_end_times, grouped_events,
                gidx, first_instrument, bpm, previous_time, current_bpm,
                last_instrument, output_lines, line_times, result, output_file >>

gm_vars == << gm_program, gm_result, gm_ret >>

beat_vars == << beat_value, beat_result >>

vars == << pc, conv_vars, gm_vars, beat_vars >>

(***************************************************************************)
(* Bounds of the model.                                                    *)
(***************************************************************************)
MaxTracks == 2      \* tracks in a file
MaxMsgs == 3        \* messages in a file, over all tracks
MaxOutside == 4     \* how far outside 0..127 a program argument is drawn
MaxBeatTicks == 280 \* largest tick count of a beat value n / ticks_per_beat

(***************************************************************************)
(* Helpers.                                                                *)
(***************************************************************************)
Abs(x) == IF x < 0 THEN -x ELSE x

RECURSIVE Gcd(_, _)
Gcd(a, b) == IF b = 0 THEN a ELSE Gcd(b, a % b)

\* x < a / b for a beat value x = <<n, d>> with d > 0 and b > 0.
Less(x, a, b) == x[1] * b < a * x[2]

(***************************************************************************)
(* gm_to_scratch_instrument                                                *)
(***************************************************************************)
\* The dict of line 24-34 in insertion order: range(lo, hi) -> inst.
instrument_map_gap ==
    << <<0, 2, 1>>,     <<2, 8, 2>>,     <<9, 11, 17>>,
       <<11, 16, 19>>,  <<16, 24, 3>>,
       <<24, 28, 4>>,   <<28, 32, 5>>,   <<32, 40, 6>>,
       <<40, 44, 8>>,   <<44, 48, 7>>,   <<48, 52, 8>>,
       <<52, 56, 15>>,  <<56, 64, 9>>,   <<64, 68, 11>>,
       <<68, 72, 10>>,  <<72, 74, 12>>,  <<74, 80, 13>>,
       <<80, 88, 20>>,  <<88, 96, 21>>,  <<96, 104, 21>>,
       <<104, 108, 13>>, <<108, 112, 4>>, <<112, 116, 18>>,
       <<116, 120, 19>>, <<120, 128, 21>> >>

instrument_map ==
    << <<0, 2, 1>>,     <<2, 8, 2>>,     <<8, 9, 16>>,
       <<9, 11, 17>>,   <<11, 16, 19>>,  <<16, 24, 3>>,
       <<24, 28, 4>>,   <<28, 32, 5>>,   <<32, 40, 6>>,
       <<40, 44, 8>>,   <<44, 48, 7>>,   <<48, 52, 8>>,
       <<52, 56, 15>>,  <<56, 64, 9>>,   <<64, 68, 11>>,
       <<68, 72, 10>>,  <<72, 74, 12>>,  <<74, 80, 13>>,
       <<80, 88, 20>>,  <<88, 96, 21>>,  <<96, 104, 21>>,
       <<104, 108, 13>>, <<108, 112, 4>>, <<112, 116, 18>>,
       <<116, 120, 19>>, <<120, 128, 21>> >>

\* gm_program in range(lo, hi)
InRange(p, r) == r[1] <= p /\ p < r[2]

\* The loop of line 36-39 from entry i on: the first range holding the program
\* returns (line 38); running off the end returns 1 (line 39).
RECURSIVE GmLookup(_, _)
GmLookup(p, i) ==
    IF i > Len(instrument_map) THEN [inst |-> 1, ret |-> "default"]
    ELSE IF InRange(p, instrument_map[i])
         THEN [inst |-> instrument_map[i][3], ret |-> "match"]
         ELSE GmLookup(p, i + 1)

gm_to_scratch_instrument(p) == GmLookup(p, 1).inst

(***************************************************************************)
(* round_to_musical_beat                                                   *)
(***************************************************************************)
\* round(beat_value, 2): the nearest hundredth, ties to the even hundredth.
\* (A tie n/d = (2k+1)/200 with the model's d has a power-of-two denominator,
\* so the double is exact and Python rounds it half to even.)
Round2(x) ==
    LET q == (100 * x[1]) \div x[2]
        r == (100 * x[1]) % x[2]
        h == IF 2 * r < x[2] THEN q
             ELSE IF 2 * r > x[2] THEN q + 1
             ELSE IF q % 2 = 0 THEN q ELSE q + 1
    IN  h * 1000

\* The ladder with the 0.8 comparison made inclusive.
round_to_musical_beat_incl(x) ==
    IF Less(x, 27, 1000) THEN 3125
    ELSE IF Less(x, 35, 1000) THEN 4000
    ELSE IF Less(x, 45, 1000) THEN 5000
    ELSE IF Less(x, 615, 10000) THEN 6250
    ELSE IF Less(x, 825, 10000) THEN 8330
    ELSE IF Less(x, 5, 100) THEN 10000
    ELSE IF Less(x, 1, 10) THEN 12500
    ELSE IF Less(x, 15, 100) THEN 16600
    ELSE IF Less(x, 2, 10) THEN 25000
    ELSE IF Less(x, 3, 10) THEN 33000
    ELSE IF Less(x, 4, 10) THEN 50000
    ELSE IF Less(x, 6, 10) THEN 75000
    ELSE IF ~Less(<<8, 10>>, x[1], x[2]) THEN 100000
    ELSE IF Less(x, 13, 10) THEN 150000
    ELSE IF Less(x, 25, 10) THEN 200000
    ELSE IF Less(x, 35, 10) THEN 300000
    ELSE IF Less(x, 45, 10) THEN 400000
    ELSE IF Less(x, 65, 10) THEN 600000
    ELSE IF Less(x, 75, 10) THEN 700000
    ELSE IF Less(x, 85, 10) THEN 800000
    ELSE IF Less(x, 105, 10) THEN 1000000
    ELSE IF Less(x, 115, 10) THEN 1100000
    ELSE IF Less(x, 125, 10) THEN 1200000
    ELSE IF Less(x, 145, 10) THEN 1400000
    ELSE IF Less(x, 155, 10) THEN 1500000
    ELSE IF Less(x, 165, 10) THEN 1600000
    ELSE Round2(x)

\* The if/elif ladder of line 44-97, in the order of the source.
round_to_musical_beat(x) ==
    IF Less(x, 27, 1000) THEN 3125
    ELSE IF Less(x, 35, 1000) THEN 4000
    ELSE IF Less(x, 45, 1000) THEN 5000
    ELSE IF Less(x, 615, 10000) THEN 6250
    ELSE IF Less(x, 825, 10000) THEN 8330
    ELSE IF Less(x, 5, 100) THEN 10000
    ELSE IF Less(x, 1, 10) THEN 12500
    ELSE IF Less(x, 15, 100) THEN 16600
    ELSE IF Less(x, 2, 10) THEN 25000
    ELSE IF Less(x, 3, 10) THEN 33000
    ELSE IF Less(x, 4, 10) THEN 50000
    ELSE IF Less(x, 6, 10) THEN 75000
    ELSE IF Less(x, 8, 10) THEN 100000
    ELSE IF Less(x, 13, 10) THEN 150000
    ELSE IF Less(x, 25, 10) THEN 200000
    ELSE IF Less(x, 35, 10) THEN 300000
    ELSE IF Less(x, 45, 10) THEN 400000
    ELSE IF Less(x, 65, 10) THEN 600000
    ELSE IF Less(x, 75, 10) THEN 700000
    ELSE IF Less(x, 85, 10) THEN 800000
    ELSE IF Less(x, 105, 10) THEN 1000000
    ELSE IF Less(x, 115, 10) THEN 1100000
    ELSE IF Less(x, 125, 10) THEN 1200000
    ELSE IF Less(x, 145, 10) THEN 1400000
    ELSE IF Less(x, 155, 10) THEN 1500000
    ELSE IF Less(x, 165, 10) THEN 1600000
    ELSE Round2(x)

(***************************************************************************)
(* The input: what mido.MidiFile yields.                                   *)
(***************************************************************************)
DefaultTempo == 500000

TicksPerBeat == {0, 16, 32}
Deltas == {0, 1}
Notes == {60, 64}
OffNotes == {60}
Channels == {0}
Programs == {0, 1, 40}
Tempos == {0, DefaultTempo, 600000}

Messages ==
    [type : {"note_on"}, time : Deltas, note : Notes, velocity : {64},
     channel : Channels]
    \cup [type : {"note_on"}, time : Deltas, note : OffNotes, velocity : {0},
          channel : Channels]
    \cup [type : {"note_off"}, time : Deltas, note : OffNotes, velocity : {0},
          channel : Channels]
    \cup [type : {"program_change"}, time : Deltas, program : Programs,
          channel : Channels]
    \cup [type : {"set_tempo"}, time : Deltas, tempo : Tempos]

(***************************************************************************)
(* Lists and dicts.                                                        *)
(***************************************************************************)
\* list.sort(key=lambda x: x[0]) with the list left as it is.
SortByTime_unsorted(seq) == seq

\* Insert e into s (sorted by time) behind every element whose time is not later.
InsertByTime(s, e) ==
    LET k == Cardinality({i \in 1 .. Len(s) : s[i].time <= e.time})
    IN  SubSeq(s, 1, k) \o <<e>> \o SubSeq(s, k + 1, Len(s))

RECURSIVE SortPrefix(_, _)
SortPrefix(seq, n) ==
    IF n = 0 THEN <<>> ELSE InsertByTime(SortPrefix(seq, n - 1), seq[n])

\* list.sort(key=lambda x: x[0]): stable, ascending by time.
SortByTime(seq) == SortPrefix(seq, Len(seq))

\* sorted(notes_at_time)
RECURSIVE sorted(_)
sorted(s) ==
    IF s = <<>> THEN <<>>
    ELSE LET rest == sorted(Tail(s))
             k == Cardinality({i \in 1 .. Len(rest) : rest[i] < Head(s)})
         IN  SubSeq(rest, 1, k) \o <<Head(s)>> \o SubSeq(rest, k + 1, Len(rest))

\* d[k] = v on a dict kept as a list of <<key, value>> in insertion order.
DictSet(d, k, v) ==
    IF \E i \in 1 .. Len(d) : d[i][1] = k
    THEN [i \in 1 .. Len(d) |-> IF d[i][1] = k THEN <<k, v>> ELSE d[i]]
    ELSE Append(d, <<k, v>>)

\* d.get(k, default)
DictGet(d, k, default) ==
    IF \E i \in 1 .. Len(d) : d[i][1] = k
    THEN d[CHOOSE i \in 1 .. Len(d) : d[i][1] = k][2]
    ELSE default

(***************************************************************************)
(* midi_to_scratch: the pieces of the conversion.                          *)
(***************************************************************************)
NoResult == [success |-> FALSE, message |-> <<"not returned">>]
NoFile == [exists |-> FALSE, lines |-> <<>>]

IsNoteOn(e) == e.type = "note_on"

\* Line 121-140: what one message adds to the event list.
EventOf(msg, t, program) ==
    IF msg.type = "note_on" /\ msg.velocity > 0
    THEN << [time |-> t, type |-> "note_on",
             data |-> [note |-> msg.note, velocity |-> msg.velocity,
                       channel |-> msg.channel, program |-> program]] >>
    ELSE IF msg.type = "note_off" \/ (msg.type = "note_on" /\ msg.velocity = 0)
    THEN << [time |-> t, type |-> "note_off",
             data |-> [note |-> msg.note, channel |-> msg.channel]] >>
    ELSE <<>>

\* Line 150-154: the instrument of the first note_on in time order, else 1.
FirstInstrument(evs) ==
    IF \E i \in 1 .. Len(evs) : IsNoteOn(evs[i])
    THEN LET i == CHOOSE j \in 1 .. Len(evs) :
                      /\ IsNoteOn(evs[j])
                      /\ \A k \in 1 .. j - 1 : ~IsNoteOn(evs[k])
         IN  gm_to_scratch_instrument(evs[i].data.program)
    ELSE 1

\* 60000000 / tempo (tempo # 0), in lowest terms.
Bpm(tempo) ==
    LET g == Gcd(60000000, tempo) IN << 60000000 \div g, tempo \div g >>

\* Line 163-168: the last note_off time of every (channel, note).
NoteEndTimes(evs) ==
    LET offs == {i \in 1 .. Len(evs) : evs[i].type = "note_off"}
        keys == {<<evs[i].data.channel, evs[i].data.note>> : i \in offs}
        last(k) == CHOOSE i \in offs :
                      /\ <<evs[i].data.channel, evs[i].data.note>> = k
                      /\ \A j \in offs :
                            <<evs[j].data.channel, evs[j].data.note>> = k => j <= i
    IN  [k \in keys |-> evs[last(k)].time]

\* Line 171 and 189 with a strict comparison.
WithinTolerance_strict(other_time, time, tpb) == Abs(other_time - time) * 32 < tpb

\* Line 171 and 189: abs(other_time - time) <= ticks_per_beat / 32.
WithinTolerance(other_time, time, tpb) == Abs(other_time - time) * 32 <= tpb

\* Line 188-191: the indices of the events a chord anchored at time collects.
ChordMembers(evs, time, tpb) ==
    {i \in 1 .. Len(evs) : IsNoteOn(evs[i]) /\ WithinTolerance(evs[i].time, time, tpb)}

\* Line 185-191: chord_notes, in the order of the event list.
ChordNotes(evs, time, tpb) ==
    LET sel == SelectSeq(evs, LAMBDA e : IsNoteOn(e) /\ WithinTolerance(e.time, time, tpb))
    IN  [i \in 1 .. Len(sel) |-> sel[i].data.note]

\* Line 176-196: the grouping loop from index idx on.
RECURSIVE GroupChords(_, _, _, _, _)
GroupChords(evs, idx, processed_times, grouped, tpb) ==
    IF idx > Len(evs) THEN grouped
    ELSE LET e == evs[idx] IN
         IF ~IsNoteOn(e) \/ e.time \in processed_times
         THEN GroupChords(evs, idx + 1, processed_times, grouped, tpb)
         ELSE GroupChords(evs, idx + 1,
                  processed_times \cup {evs[i].time : i \in ChordMembers(evs, e.time, tpb)},
                  Append(grouped,
                         [time |-> e.time, type |-> "chord",
                          data |-> [notes |-> ChordNotes(evs, e.time, tpb),
                                    program |-> e.data.program]]),
                  tpb)

\* Line 198-200: the tempo changes after time 0, in dict order.
TempoEvents(tc) ==
    LET sel == SelectSeq(tc, LAMBDA kv : kv[1] > 0)
    IN  [i \in 1 .. Len(sel) |->
            [time |-> sel[i][1], type |-> "tempo", data |-> [tempo |-> sel[i][2]]]]

\* Line 221 with the comparison dropped.
InstrumentChanged_always(instrument_at_time, last) == TRUE

\* Line 221
InstrumentChanged(instrument_at_time, last) == instrument_at_time # last

\* Line 228 with the threshold mistyped as 0.3125.
RestAudible_typo(rest_ticks, tpb) == rest_ticks * 32 >= 10 * tpb

\* Line 227-228: rest_ticks / ticks_per_beat >= 0.03125 (ticks_per_beat > 0).
RestAudible(rest_ticks, tpb) == rest_ticks * 32 >= tpb

Line(kind, val) == [kind |-> kind, val |-> val]

(***************************************************************************)
(* midi_to_scratch: the state machine.                                     *)
(***************************************************************************)
\* The locals of midi_to_scratch before the call.
ConvIdle ==
    /\ ticks_per_beat = 0
    /\ track_num = 0
    /\ msg_count = 0
    /\ absolute_time = 0
    /\ current_program = 0
    /\ current_tempo = DefaultTempo
    /\ events = <<>>
    /\ tempo_changes = <<>>
    /\ note_end_times = <<>>
    /\ grouped_events = <<>>
    /\ gidx = 1
    /\ first_instrument = 1
    /\ bpm = <<0, 1>>
    /\ previous_time = 0
    /\ current_bpm = <<0, 1>>
    /\ last_instrument = 1
    /\ output_lines = <<>>
    /\ line_times = <<>>
    /\ result = NoResult
    /\ output_file = NoFile

GmIdle == gm_program = 0 /\ gm_result = 0 /\ gm_ret = "none"

BeatIdle == beat_value = <<0, 1>> /\ beat_result = 0

Init == pc = "start" /\ ConvIdle /\ GmIdle /\ BeatIdle

\* Line 103-106: mido.MidiFile raises, the error is returned.
OpenFail ==
    /\ pc = "start"
    /\ result' = [success |-> FALSE, message |-> <<"Error reading MIDI file">>]
    /\ pc' = "done"
    /\ UNCHANGED << ticks_per_beat, track_num, msg_count, absolute_time,
                    current_program, current_tempo, events, tempo_changes,
                    note_end_times, grouped_events, gidx, first_instrument, bpm,
                    previous_time, current_bpm, last_instrument, output_lines,
                    line_times, output_file, gm_vars, beat_vars >>

\* Line 104-111: the file is read.
OpenOk ==
    /\ pc = "start"
    /\ \E tpb \in TicksPerBeat : ticks_per_beat' = tpb
    /\ events' = <<>>
    /\ current_tempo' = DefaultTempo
    /\ tempo_changes' = << <<0, DefaultTempo>> >>
    /\ pc' = "tracks"
    /\ UNCHANGED << track_num, msg_count, absolute_time, current_program,
                    note_end_times, grouped_events, gidx, first_instrument, bpm,
                    previous_time, current_bpm, last_instrument, output_lines,
                    line_times, result, output_file, gm_vars, beat_vars >>

\* Line 114-116: the loop enters the next track.
NextTrack ==
    /\ pc = "tracks"
    /\ track_num < MaxTracks
    /\ track_num' = track_num + 1
    /\ absolute_time' = 0
    /\ current_program' = 0
    /\ UNCHANGED << pc, ticks_per_beat, msg_count, current_tempo, events,
                    tempo_changes, note_end_times, grouped_events, gidx,
                    first_instrument, bpm, previous_time, current_bpm,
                    last_instrument, output_lines, line_times, result,
                    output_file, gm_vars, beat_vars >>

\* Line 118-140: the next message of the current track.
ReadMsg ==
    /\ pc = "tracks"
    /\ track_num >= 1
    /\ msg_count < MaxMsgs
    /\ \E msg \in Messages :
         LET t == absolute_time + msg.time IN
         /\ absolute_time' = t
         /\ events' = events \o EventOf(msg, t, current_program)
         /\ current_program' =
                IF msg.type = "program_change" THEN msg.program ELSE current_program
         /\ current_tempo' =
                IF msg.type = "set_tempo" THEN msg.tempo ELSE current_tempo
         /\ tempo_changes' =
                IF msg.type = "set_tempo" THEN DictSet(tempo_changes, t, msg.tempo)
                ELSE tempo_changes
    /\ msg_count' = msg_count + 1
    /\ UNCHANGED << pc, ticks_per_beat, track_num, note_end_times, grouped_events,
                    gidx, first_instrument, bpm, previous_time, current_bpm,
                    last_instrument, output_lines, line_times, result,
                    output_file, gm_vars, beat_vars >>

\* Line 142-145: the tracks are exhausted; sort, and return if there is no event.
EndTracks ==
    /\ pc = "tracks"
    /\ events' = SortByTime(events)
    /\ IF events = <<>>
       THEN /\ result' = [success |-> FALSE,
                          message |-> <<"No note events found in MIDI file!">>]
            /\ pc' = "done"
       ELSE /\ result' = result
            /\ pc' = "header"
    /\ UNCHANGED << ticks_per_beat, track_num, msg_count, absolute_time,
                    current_program, current_tempo, tempo_changes, note_end_times,
                    grouped_events, gidx, first_instrument, bpm, previous_time,
                    current_bpm, last_instrument, output_lines, line_times,
                    output_file, gm_vars, beat_vars >>

\* Line 147-168: the two header lines and the end-time index.  The division of
\* line 160 raises ZeroDivisionError for a tempo of 0, after line 156 has run.
Header ==
    /\ pc = "header"
    /\ first_instrument' = FirstInstrument(events)
    /\ LET initial_tempo == DictGet(tempo_changes, 0, DefaultTempo) IN
       IF initial_tempo = 0
       THEN /\ output_lines' = << Line("Instr", FirstInstrument(events)) >>
            /\ line_times' = << 0 >>
            /\ pc' = "fault"
            /\ UNCHANGED << bpm, note_end_times >>
       ELSE /\ bpm' = Bpm(initial_tempo)
            /\ output_lines' = << Line("Instr", FirstInstrument(events)),
                                  Line("BPM", Bpm(initial_tempo)) >>
            /\ line_times' = << 0, 0 >>
            /\ note_end_times' = NoteEndTimes(events)
            /\ pc' = "group"
    /\ UNCHANGED << ticks_per_beat, track_num, msg_count, absolute_time,
                    current_program, current_tempo, events, tempo_changes,
                    grouped_events, gidx, previous_time, current_bpm,
                    last_instrument, result, output_file, gm_vars, beat_vars >>

\* Line 170-206: chords, the tempo events behind them, the sort, the walk's state.
\* (progress_callback, line 177-178, is the caller's and changes no local.)
Group ==
    /\ pc = "group"
    /\ grouped_events' =
          SortByTime(GroupChords(events, 1, {}, <<>>, ticks_per_beat)
                     \o TempoEvents(tempo_changes))
    /\ gidx' = 1
    /\ previous_time' = 0
    /\ current_bpm' = bpm
    /\ last_instrument' = first_instrument
    /\ pc' = "serialize"
    /\ UNCHANGED << ticks_per_beat, track_num, msg_count, absolute_time,
                    current_program, current_tempo, events, tempo_changes,
                    note_end_times, first_instrument, bpm, output_lines,
                    line_times, result, output_file, gm_vars, beat_vars >>

\* Line 209-215: a tempo event.  Line 211 raises for a tempo of 0.
SerializeTempo ==
    /\ pc = "serialize"
    /\ gidx <= Len(grouped_events)
    /\ grouped_events[gidx].type = "tempo"
    /\ LET new_tempo == grouped_events[gidx].data.tempo
           time_point == grouped_events[gidx].time
       IN  IF new_tempo = 0
           THEN /\ pc' = "fault"
                /\ UNCHANGED << gidx, current_bpm, output_lines, line_times >>
           ELSE /\ pc' = pc
                /\ gidx' = gidx + 1
                /\ current_bpm' = Bpm(new_tempo)
                /\ IF Bpm(new_tempo) # current_bpm
                   THEN /\ output_lines' = Append(output_lines, Line("BPM", Bpm(new_tempo)))
                        /\ line_times' = Append(line_times, time_point)
                   ELSE UNCHANGED << output_lines, line_times >>
    /\ UNCHANGED << ticks_per_beat, track_num, msg_count, absolute_time,
                    current_program, current_tempo, events, tempo_changes,
                    note_end_times, grouped_events, first_instrument, bpm,
                    previous_time, last_instrument, result, output_file,
                    gm_vars, beat_vars >>

\* Line 217-233: a chord event.  Line 227 raises for ticks_per_beat = 0, after
\* the Instr line of line 222 has been appended.
SerializeChord ==
    /\ pc = "serialize"
    /\ gidx <= Len(grouped_events)
    /\ grouped_events[gidx].type = "chord"
    /\ LET time_point == grouped_events[gidx].time
           notes_at_time == grouped_events[gidx].data.notes
           instrument_at_time == gm_to_scratch_instrument(grouped_events[gidx].data.program)
           changed == InstrumentChanged(instrument_at_time, last_instrument)
           instr == IF changed THEN << Line("Instr", instrument_at_time) >> ELSE <<>>
           rest_ticks == time_point - previous_time
           rest == IF time_point > previous_time /\ RestAudible(rest_ticks, ticks_per_beat)
                   THEN << Line("Rest", round_to_musical_beat(<<rest_ticks, ticks_per_beat>>)) >>
                   ELSE <<>>
           note == << Line("Note", sorted(notes_at_time)) >>
       IN  /\ last_instrument' = IF changed THEN instrument_at_time ELSE last_instrument
           /\ IF time_point > previous_time /\ ticks_per_beat = 0
              THEN /\ pc' = "fault"
                   /\ output_lines' = output_lines \o instr
                   /\ line_times' = line_times \o [i \in 1 .. Len(instr) |-> time_point]
                   /\ UNCHANGED << gidx, previous_time >>
              ELSE /\ pc' = pc
                   /\ output_lines' = output_lines \o instr \o rest \o note
                   /\ line_times' = line_times \o
                         [i \in 1 .. Len(instr) + Len(rest) + 1 |-> time_point]
                   /\ previous_time' = time_point
                   /\ gidx' = gidx + 1
    /\ UNCHANGED << ticks_per_beat, track_num, msg_count, absolute_time,
                    current_program, current_tempo, events, tempo_changes,
                    note_end_times, grouped_events, first_instrument, bpm,
                    current_bpm, result, output_file, gm_vars, beat_vars >>

\* Line 235-238: the file is written.
WriteOk ==
    /\ pc = "serialize"
    /\ gidx > Len(grouped_events)
    /\ output_file' = [exists |-> TRUE, lines |-> output_lines]
    /\ result' = [success |-> TRUE,
                  message |-> <<"Successfully converted!", Len(output_lines)>>]
    /\ pc' = "done"
    /\ UNCHANGED << ticks_per_beat, track_num, msg_count, absolute_time,
                    current_program, current_tempo, events, tempo_changes,
                    note_end_times, grouped_events, gidx, first_instrument, bpm,
                    previous_time, current_bpm, last_instrument, output_lines,
                    line_times, gm_vars, beat_vars >>

\* Line 239-240: open or write raises; the file may have been created empty.
WriteFail ==
    /\ pc = "serialize"
    /\ gidx > Len(grouped_events)
    /\ \E created \in BOOLEAN : output_file' = [exists |-> created, lines |-> <<>>]
    /\ result' = [success |-> FALSE, message |-> <<"Error writing output file">>]
    /\ pc' = "done"
    /\ UNCHANGED << ticks_per_beat, track_num, msg_count, absolute_time,
                    current_program, current_tempo, events, tempo_changes,
                    note_end_times, grouped_events, gidx, first_instrument, bpm,
                    previous_time, current_bpm, last_instrument, output_lines,
                    line_times, gm_vars, beat_vars >>

Next ==
    \/ OpenFail
    \/ OpenOk
    \/ NextTrack
    \/ ReadMsg
    \/ EndTracks
    \/ Header
    \/ Group
    \/ SerializeTempo
    \/ SerializeChord
    \/ WriteOk
    \/ WriteFail

Spec == Init /\ [][Next]_vars

(***************************************************************************)
(* The pure functions, called on their own.                                *)
(***************************************************************************)
GmInputs == (0 - MaxOutside) .. (127 + MaxOutside)

InitGm == pc = "gm_call" /\ ConvIdle /\ BeatIdle
          /\ gm_program \in GmInputs /\ gm_result = 0 /\ gm_ret = "none"

\* Line 22-39: one call of gm_to_scratch_instrument.
CallGm ==
    /\ pc = "gm_call"
    /\ gm_result' = gm_to_scratch_instrument(gm_program)
    /\ gm_ret' = GmLookup(gm_program, 1).ret
    /\ pc' = "gm_done"
    /\ UNCHANGED << gm_program, conv_vars, beat_vars >>

NextGm == CallGm

SpecGm == InitGm /\ [][NextGm]_vars

\* The bounds of the ladder in units of 1/10000 beat, and their neighbours.
BeatGrid ==
    LET bounds == {270, 350, 450, 615, 825, 500, 1000, 1500, 2000, 3000, 4000,
                   6000, 8000, 13000, 25000, 35000, 45000, 65000, 75000, 85000,
                   105000, 115000, 125000, 145000, 155000, 165000}
    IN  {b + e : b \in bounds, e \in {-1, 0, 1}} \cup {0, 7900, 8100, 166250, 166350}

BeatInputs ==
    {<<n, 10000>> : n \in BeatGrid}
    \cup {<<n, d>> : n \in 0 .. MaxBeatTicks, d \in TicksPerBeat \ {0}}

InitBeat == pc = "beat_call" /\ ConvIdle /\ GmIdle
            /\ beat_value \in BeatInputs /\ beat_result = 0

\* Line 42-97: one call of round_to_musical_beat.
CallBeat ==
    /\ pc = "beat_call"
    /\ beat_result' = round_to_musical_beat(beat_value)
    /\ pc' = "beat_done"
    /\ UNCHANGED << beat_value, conv_vars, gm_vars >>

NextBeat == CallBeat

SpecBeat == InitBeat /\ [][NextBeat]_vars

(***************************************************************************)
(* Vocabulary of the properties.                                           *)
(***************************************************************************)
NoteOnIndices == {i \in 1 .. Len(events) : IsNoteOn(events[i])}

NoteOnCount == Cardinality(NoteOnIndices)

Decoded == result.message[1] # "Error reading MIDI file"

Succeeded == pc = "done" /\ result.success

KindIndices(lines, kind) == {i \in 1 .. Len(lines) : lines[i].kind = kind}

\* The value of the most recent line of a kind (the header supplies one of each).
LastVal(lines, kind) ==
    LET ix == KindIndices(lines, kind)
    IN  lines[CHOOSE i \in ix : \A j \in ix : j <= i].val

\* The event time of the most recent Note line, 0 when there is none.
LastNoteTime(lines, times) ==
    LET ix == KindIndices(lines, "Note")
    IN  IF ix = {} THEN 0 ELSE times[CHOOSE i \in ix : \A j \in ix : j <= i]

\* No Instr line and no BPM line repeats the value of the line of its kind before it.
NoRepeat(lines) ==
    \A kind \in {"Instr", "BPM"} :
        \A i, j \in KindIndices(lines, kind) :
            (i < j /\ \A k \in KindIndices(lines, kind) : ~(i < k /\ k < j))
                => lines[i].val # lines[j].val

RECURSIVE NoteTotal(_, _)
NoteTotal(lines, n) ==
    IF n = 0 THEN 0
    ELSE NoteTotal(lines, n - 1) + (IF lines[n].kind = "Note" THEN Len(lines[n].val) ELSE 0)

Chords == SelectSeq(grouped_events, LAMBDA g : g.type = "chord")

NewLines == SubSeq(output_lines', Len(output_lines) + 1, Len(output_lines'))

(***************************************************************************)
(* C1. A decoded stream without any note_on (velocity > 0) makes           *)
(* midi_to_scratch return (False, "no notes found") and write no file.     *)
(* The code tests the event list, which note_off events fill as well.      *)
(***************************************************************************)
C1_NoNoteOnIsReported ==
    (pc = "done" /\ Decoded /\ NoteOnCount = 0)
        => /\ result.success = FALSE
           /\ result.message[1] = "No note events found in MIDI file!"
           /\ ~output_file.exists

(***************************************************************************)
(* C2. Every failure is a returned (success, message) pair: no run of      *)
(* midi_to_scratch ends in an unhandled exception.                         *)
(***************************************************************************)
C2_NoUnhandledFault == pc # "fault"

(***************************************************************************)
(* C3. The output starts with an Instr line and then a BPM line, every     *)
(* Rest and Note line comes after them, and the event times behind the     *)
(* lines after the header never decrease; a successful conversion writes   *)
(* exactly these lines.                                                    *)
(***************************************************************************)
C3_HeaderThenTimeOrder ==
    /\ Len(output_lines) >= 1 => output_lines[1].kind = "Instr"
    /\ Len(output_lines) >= 2 => output_lines[2].kind = "BPM"
    /\ \A i \in 1 .. Len(output_lines) :
          output_lines[i].kind \in {"Rest", "Note"} => i >= 3
    /\ Len(line_times) = Len(output_lines)
    /\ \A i, j \in 3 .. Len(output_lines) : i < j => line_times[i] <= line_times[j]
    /\ Succeeded => /\ Len(output_lines) >= 2
                    /\ output_file = [exists |-> TRUE, lines |-> output_lines]

\* Two tracks, a tempo change between two chords, all converted.
C3_Witness ==
    /\ Succeeded
    /\ track_num = 2
    /\ \E i, j, k \in 3 .. Len(output_lines) :
          /\ i < j /\ j < k
          /\ output_lines[i].kind = "Note"
          /\ output_lines[j].kind = "BPM"
          /\ output_lines[k].kind = "Note"
          /\ line_times[i] < line_times[j]

(***************************************************************************)
(* C4. Redundant-state suppression.  A chord step appends an Instr line    *)
(* exactly when the chord's instrument differs from the most recently      *)
(* emitted Instr line, a tempo step appends a BPM line exactly when its    *)
(* BPM differs from the most recently emitted BPM line, and no Instr or    *)
(* BPM line repeats the value of the previous line of its kind.            *)
(***************************************************************************)
C4_Step ==
    /\ NoRepeat(output_lines')
    /\ (pc = "serialize" /\ gidx <= Len(grouped_events) /\ gidx' = gidx + 1) =>
          LET e == grouped_events[gidx]
              newInstr == KindIndices(NewLines, "Instr")
              newBpm == KindIndices(NewLines, "BPM")
          IN  IF e.type = "chord"
              THEN /\ newBpm = {}
                   /\ Cardinality(newInstr) <= 1
                   /\ (newInstr # {}) <=>
                        (gm_to_scratch_instrument(e.data.program)
                            # LastVal(output_lines, "Instr"))
                   /\ \A i \in newInstr :
                        NewLines[i].val = gm_to_scratch_instrument(e.data.program)
              ELSE /\ newInstr = {}
                   /\ Cardinality(newBpm) <= 1
                   /\ (newBpm # {}) <=>
                        (Bpm(e.data.tempo) # LastVal(output_lines, "BPM"))
                   /\ \A i \in newBpm : NewLines[i].val = Bpm(e.data.tempo)

C4_RedundantStateSuppressed == [][C4_Step]_vars

\* Two chords of different programs and the same instrument: one Instr line.
C4_Witness ==
    /\ Succeeded
    /\ Len(Chords) = 2
    /\ Chords[1].data.program # Chords[2].data.program
    /\ Cardinality(KindIndices(output_lines, "Instr")) = 1
    /\ Cardinality(KindIndices(output_lines, "Note")) = 2

(***************************************************************************)
(* C5. Chord tolerance, inclusive at ticks_per_beat / 32.  When the        *)
(* stream's note_on events are two, at times t and t + d, they form one    *)
(* chord (one Note line with both notes) if d <= ticks_per_beat / 32 and   *)
(* two chords of one note each if d > ticks_per_beat / 32.  In any stream, *)
(* two note_on events at most ticks_per_beat / 32 apart share a chord.     *)
(***************************************************************************)
C5_ToleranceInclusive ==
    /\ pc = "serialize" =>
          \A i, j \in NoteOnIndices :
              Abs(events[j].time - events[i].time) * 32 <= ticks_per_beat
                  => \E c \in 1 .. Len(Chords) :
                        {i, j} \subseteq ChordMembers(events, Chords[c].time, ticks_per_beat)
    /\ (pc \in {"serialize", "done"} /\ Decoded /\ NoteOnCount = 2) =>
        LET i1 == CHOOSE i \in NoteOnIndices : \A j \in NoteOnIndices : i <= j
            i2 == CHOOSE i \in NoteOnIndices : \A j \in NoteOnIndices : j <= i
            d == events[i2].time - events[i1].time
            n1 == events[i1].data.note
            n2 == events[i2].data.note
            noteLines == SelectSeq(output_lines, LAMBDA l : l.kind = "Note")
        IN  IF d * 32 <= ticks_per_beat
            THEN /\ Len(Chords) = 1
                 /\ Chords[1].data.notes = <<n1, n2>>
                 /\ Succeeded => noteLines = << Line("Note", sorted(<<n1, n2>>)) >>
            ELSE /\ Len(Chords) = 2
                 /\ Chords[1].data.notes = <<n1>>
                 /\ Chords[2].data.notes = <<n2>>
                 /\ Succeeded => noteLines = << Line("Note", <<n1>>), Line("Note", <<n2>>) >>

\* Two note_on events exactly ticks_per_beat / 32 = 1 tick apart, in one Note line.
C5_Witness ==
    /\ Succeeded
    /\ ticks_per_beat = 32
    /\ NoteOnCount = 2
    /\ \E i, j \in NoteOnIndices : events[j].time = events[i].time + 1
    /\ Cardinality(KindIndices(output_lines, "Note")) = 1
    /\ \E i \in 1 .. Len(output_lines) :
          output_lines[i].kind = "Note" /\ Len(output_lines[i].val) = 2

(***************************************************************************)
(* C6. gm_to_scratch_instrument is total on 0..127 with results in 1..21:  *)
(* each program of 0..127 lies in exactly one of the 26 ranges and is      *)
(* returned from the loop, never by the default; a program outside 0..127  *)
(* lies in no range and returns 1 by the default.                          *)
(***************************************************************************)
C6_MapperTotal ==
    pc = "gm_done" =>
        LET holding == {i \in 1 .. Len(instrument_map) :
                            InRange(gm_program, instrument_map[i])}
        IN  /\ Len(instrument_map) = 26
            /\ gm_program \in 0 .. 127 =>
                  /\ Cardinality(holding) = 1
                  /\ gm_ret = "match"
                  /\ gm_result \in 1 .. 21
            /\ gm_program \notin 0 .. 127 =>
                  /\ holding = {}
                  /\ gm_ret = "default"
                  /\ gm_result = 1

\* Program 8, the one-element range, maps to instrument 16.
C6_Witness == pc = "gm_done" /\ gm_program = 8 /\ gm_result = 16 /\ gm_ret = "match"

(***************************************************************************)
(* C7. For a beat value below 16.5, round_to_musical_beat returns the      *)
(* value paired with the first bound, in the order of the documented       *)
(* ladder (0.05 standing after 0.0825), that the input is strictly below;  *)
(* so [0.6, 0.8) gives 1 and [0.8, 1.3) gives 1.5, and the value 0.1 of    *)
(* the out-of-order bound is never returned.                               *)
(***************************************************************************)
\* <<a, b, v>>: below a / b the value is v / 100000.
DocumentedLadder ==
    << <<27, 1000, 3125>>,    <<35, 1000, 4000>>,   <<45, 1000, 5000>>,
       <<615, 10000, 6250>>,  <<825, 10000, 8330>>, <<5, 100, 10000>>,
       <<1, 10, 12500>>,      <<15, 100, 16600>>,   <<2, 10, 25000>>,
       <<3, 10, 33000>>,      <<4, 10, 50000>>,     <<6, 10, 75000>>,
       <<8, 10, 100000>>,     <<13, 10, 150000>>,   <<25, 10, 200000>>,
       <<35, 10, 300000>>,    <<45, 10, 400000>>,   <<65, 10, 600000>>,
       <<75, 10, 700000>>,    <<85, 10, 800000>>,   <<105, 10, 1000000>>,
       <<115, 10, 1100000>>,  <<125, 10, 1200000>>, <<145, 10, 1400000>>,
       <<155, 10, 1500000>>,  <<165, 10, 1600000>> >>

C7_FirstBoundStrictlyAbove ==
    (pc = "beat_done" /\ Less(beat_value, 165, 10)) =>
        LET below == {i \in 1 .. Len(DocumentedLadder) :
                        beat_value[1] * DocumentedLadder[i][2]
                            < DocumentedLadder[i][1] * beat_value[2]}
            first == CHOOSE i \in below : \A j \in below : i <= j
        IN  /\ beat_result = DocumentedLadder[first][3]
            /\ beat_result # 10000
            /\ (~Less(beat_value, 6, 10) /\ Less(beat_value, 8, 10))
                  => beat_result = 100000
            /\ (~Less(beat_value, 8, 10) /\ Less(beat_value, 13, 10))
                  => beat_result = 150000
            /\ beat_value = <<7900, 10000>> => beat_result = 100000
            /\ beat_value = <<8100, 10000>> => beat_result = 150000

\* The input exactly at the 0.8 bound is not below it: it returns 1.5.
C7_Witness == pc = "beat_done" /\ beat_value = <<8000, 10000>> /\ beat_result = 150000

(***************************************************************************)
(* C8. A tempo change and a chord at the same time: the BPM line of the    *)
(* tempo event never stands after the Note line of the chord.  The code    *)
(* appends the tempo events behind the chords and sorts stably, so the     *)
(* chord comes first.                                                      *)
(***************************************************************************)
C8_TempoBeforeChordAtSameTime ==
    \A i, j \in 3 .. Len(output_lines) :
        (i < j /\ output_lines[i].kind = "Note" /\ output_lines[j].kind = "BPM")
            => line_times[i] # line_times[j]

(***************************************************************************)
(* C9. A chord step (ticks_per_beat > 0) ends with the chord's Note line;  *)
(* a Rest line stands immediately before it exactly when                   *)
(* (time - previous_time) / ticks_per_beat >= 0.03125, previous_time being *)
(* the time of the previously emitted chord (0 before the first); the Rest *)
(* value is round_to_musical_beat of that gap; previous_time becomes the   *)
(* chord's time whether or not a Rest was emitted.                         *)
(***************************************************************************)
C9_Step ==
    (/\ pc = "serialize" /\ gidx <= Len(grouped_events) /\ gidx' = gidx + 1
     /\ grouped_events[gidx].type = "chord" /\ ticks_per_beat > 0) =>
        LET time == grouped_events[gidx].time
            gap == time - LastNoteTime(output_lines, line_times)
            n == Len(NewLines)
            rests == KindIndices(NewLines, "Rest")
        IN  /\ previous_time = LastNoteTime(output_lines, line_times)
            /\ n >= 1
            /\ NewLines[n] = Line("Note", sorted(grouped_events[gidx].data.notes))
            /\ KindIndices(NewLines, "Note") = {n}
            /\ (rests # {}) <=> (gap * 32 >= ticks_per_beat)
            /\ \A i \in rests :
                  /\ i = n - 1
                  /\ NewLines[i].val = round_to_musical_beat(<<gap, ticks_per_beat>>)
            /\ previous_time' = time

C10_NotesPartitioned ==
    Succeeded => NoteTotal(output_lines, Len(output_lines)) = NoteOnCount

====
